---- MODULE Spec2Model ----
(***************************************************************************)
(* Shape- and value-level model of physmodjax's spectral operator layers   *)
(* (models/fno.py), Koopman autoencoders (models/autoencoders.py) and the  *)
(* train-state factory (scripts/train_rnn.py).                             *)
(*                                                                         *)
(* A tensor is a record [err, shape, zero]:                                *)
(*   err   = "none" for an array, otherwise the exception the call raised; *)
(*   shape = the array's shape, a sequence of extents;                     *)
(*   zero  = TRUE when every entry is known to be exactly 0.0, FALSE when  *)
(*           nothing is known about the entries.                           *)
(***************************************************************************)
EXTENDS Integers, Sequences, FiniteSets, TLC

VARIABLES
    pc,      \* position of the program: "args", "built", "called", "state_made"
    model,   \* the module's class and constructor arguments
    params,  \* which groups of the module's parameters are exactly zero
    lib,     \* behaviour of the installed FFT backend where its contract is open
    x,       \* the array handed to the call
    y,       \* what the call returned or raised
    ts,      \* what create_train_state returned or raised
    call,    \* the autoencoder method called last, its argument and results
    prev,    \* the autoencoder call made before that one
    batch    \* the last call of a Batched* wrapper: method, inputs, outputs

vars == <<pc, model, params, lib, x, y, ts, call, prev, batch>>

(***************************************************************************)
(* Bounds of the model.                                                    *)
(***************************************************************************)
MaxW == 3
MaxChannels == 2
MaxLayers == 2
MaxSteps == 2
MaxEpochs == 13
MaxEpochsVal == 3
MaxIcs == 4

(* nn.Dense(features=128), the hidden width of the projection MLP *)
ProjectionWidth == 128

(* early_stopping.EarlyStopping(min_delta=1e-3, patience=10) *)
Patience == 10

Min(a, b) == IF a <= b THEN a ELSE b

Ok(shape, zero) == [err |-> "none", shape |-> shape, zero |-> zero]

Raise(e) == [err |-> e, shape |-> <<>>, zero |-> FALSE]

NoTensor == Raise("unset")

(***************************************************************************)
(* Library semantics the layers rely on.                                   *)
(***************************************************************************)

(* jnp.fft.rfft(x, n=n): number of frequency bins of a length-n real transform *)
RfftBins(n) == n \div 2 + 1

(* jnp.fft.irfft(X) with no n given: output length for m input bins *)
IrfftDefaultLen(m) == 2 * (m - 1)

(* x[:k] on an axis of extent n *)
SliceLen(n, k) == Min(n, k)

(* extent of one axis when two operands are broadcast together; -1 when  *)
(* the extents are incompatible (einsum and + share the rule)            *)
BroadcastDim(a, b) ==
    IF a = b THEN a
    ELSE IF a = 1 THEN b
    ELSE IF b = 1 THEN a
    ELSE -1

(* x1 + x2 for two rank-2 arrays *)
Add2(x1, x2) ==
    IF x1.err # "none" THEN x1
    ELSE IF x2.err # "none" THEN x2
    ELSE LET r == BroadcastDim(x1.shape[1], x2.shape[1])
             c == BroadcastDim(x1.shape[2], x2.shape[2])
         IN IF r = -1 \/ c = -1 THEN Raise("BroadcastError")
            ELSE Ok(<<r, c>>, x1.zero /\ x2.zero)

(* nn.Dense / nn.Conv(kernel_size=(1,)): a pointwise affine map of the last *)
(* axis of a rank-2 array; p holds the zero flags of kernels and biases     *)
Dense(h, features, p) ==
    IF h.err # "none" THEN h
    ELSE Ok(<<h.shape[1], features>>, (h.zero \/ p.kernels) /\ p.biases)

(* gelu / relu: pointwise, f(0) = 0 *)
Activation(h) == h

(***************************************************************************)
(* SpectralConv1d.__call__                                                 *)
(***************************************************************************)
SpectralConv1d(m, h, p) ==
    IF h.err # "none" THEN h
    ELSE IF Len(h.shape) # 2 THEN Raise("UnpackError")
    ELSE LET W    == h.shape[1]
             C    == h.shape[2]
             bins == RfftBins(W * 2 - 1)
             kept == SliceLen(bins, m.n_modes)
             k    == BroadcastDim(kept, m.n_modes)
             i    == BroadcastDim(C, m.in_channels)
             n    == IrfftDefaultLen(k)
         IN IF k = -1 \/ i = -1 THEN Raise("EinsumError")
            ELSE IF n = 0 /\ lib.irfft_zero_raises THEN Raise("FFTLengthError")
            ELSE Ok(<<SliceLen(n, W), m.d_vars>>, h.zero \/ p.spectral)

(***************************************************************************)
(* SpectralLayers1d.__call__: n_layers rounds of act(conv(x) + w(x))       *)
(***************************************************************************)
RECURSIVE SpectralLayers1d(_, _, _, _)
SpectralLayers1d(m, h, p, layers) ==
    IF layers = 0 THEN h
    ELSE LET conv == [in_channels |-> m.n_channels, d_vars |-> m.n_channels,
                      n_modes |-> m.n_modes]
             x1 == SpectralConv1d(conv, h, p)
             x2 == Dense(h, m.n_channels, p)
         IN SpectralLayers1d(m, Activation(Add2(x1, x2)), p, layers - 1)

(***************************************************************************)
(* FNO1D.__call__                                                          *)
(***************************************************************************)
FNO1D(m, inp, p) ==
    IF Len(inp.shape) # 3 THEN Raise("EinopsError")
    ELSE LET T  == inp.shape[1]
             W  == inp.shape[2]
             C  == inp.shape[3]
             x0 == Ok(<<W, T * C>>, inp.zero)
             h0 == Dense(x0, m.hidden_channels, p)
             h  == SpectralLayers1d([n_channels |-> m.hidden_channels,
                                     n_modes |-> m.n_modes], h0, p, m.n_layers)
             y1 == Activation(Dense(h, ProjectionWidth, p))
             y2 == Dense(y1, m.d_vars * m.n_steps, p)
         IN IF y2.err # "none" THEN y2
            ELSE Ok(<<m.n_steps, y2.shape[1], m.d_vars>>, y2.zero)

(***************************************************************************)
(* SpectralConv2d.__call__                                                 *)
(***************************************************************************)
SpectralConv2d(m, h, p) ==
    IF Len(h.shape) # 3 THEN Raise("UnpackError")
    ELSE LET H    == h.shape[1]
             W    == h.shape[2]
             C    == h.shape[3]
             rows == H * 2 - 1
             cols == RfftBins(W * 2 - 1)
             kx   == BroadcastDim(SliceLen(rows, m.n_modes1), m.n_modes1)
             ky   == BroadcastDim(SliceLen(cols, m.n_modes2), m.n_modes2)
             i    == BroadcastDim(C, m.in_channels)
         IN IF kx = -1 \/ ky = -1 \/ i = -1 THEN Raise("EinsumError")
            ELSE Ok(<<H, W, m.out_channels>>, h.zero \/ p.spectral)

(***************************************************************************)
(* Autoencoders (models/autoencoders.py).                                  *)
(*                                                                         *)
(* An array here is a record [err, shape, dtype, src, ops]: src lists the  *)
(* content identifiers of the input slices the values were computed from   *)
(* and ops the operations applied to them, in order.  Two arrays with the  *)
(* same shape, src and ops hold the same values.  A caller's input has     *)
(* ops = <<>> and one content identifier per slice of its leading axis.    *)
(***************************************************************************)
MaxHidden == 5

ContentIds == {1, 2}

Arr(shape, dtype, src, ops) ==
    [err |-> "none", shape |-> shape, dtype |-> dtype, src |-> src, ops |-> ops]

Fail(e) == [err |-> e, shape |-> <<>>, dtype |-> "none", src |-> <<>>, ops |-> <<>>]

NoArr == Fail("unset")

Op(name, n) == [op |-> name, n |-> n]

(* the array f(t) of the given shape and dtype *)
Apply(t, name, n, shape, dtype) ==
    Arr(shape, dtype, t.src, Append(t.ops, Op(name, n)))

RECURSIVE Prod(_)
Prod(s) == IF s = <<>> THEN 1 ELSE Head(s) * Prod(Tail(s))

Front(s) == SubSeq(s, 1, Len(s) - 1)

Last(s) == s[Len(s)]

Rank(t) == Len(t.shape)

(* x[0] *)
Index0(t) ==
    IF t.err # "none" THEN t
    ELSE IF Rank(t) = 0 \/ t.shape[1] = 0 THEN Fail("IndexError")
    ELSE Arr(Tail(t.shape), t.dtype, <<t.src[1]>>, Append(t.ops, Op("first", 0)))

ComplexVariants ==
    {"KoopmanAutoencoder1D", "KoopmanAutoencoder2D", "DenseKoopmanAutoencoder2D"}

KoopmanVariants == ComplexVariants \cup {"KoopmanAutoencoder1DReal"}

DenseVariants ==
    {"KoopmanAutoencoder1D", "KoopmanAutoencoder1DReal", "DenseKoopmanAutoencoder2D"}

(* shape of one Field the model is configured for: d_model and d_vars *)
FieldShape(m) ==
    IF m.cls \in {"KoopmanAutoencoder1D", "KoopmanAutoencoder1DReal"}
        THEN <<m.d_model, m.d_vars>>
    ELSE <<m.d_model[1], m.d_model[2], m.d_vars>>

(* width of the latent vector the encoder produces *)
HiddenDim(m) ==
    IF m.cls \in DenseVariants THEN m.hidden_dim
    ELSE IF m.cls = "KoopmanAutoencoder2D"
        THEN m.d_latent_dims[1] * m.d_latent_dims[2] * m.d_latent_channels
    ELSE SliceLen(m.d_model[1] * 2 - 1, m.n_modes)
             * SliceLen(RfftBins(m.d_model[2] * 2 - 1), m.n_modes) * m.d_vars

(* rearrange(x, "w c -> (w c)") / "t w c -> t (w c)": applied when the rank *)
(* is that of a Field or of a stack of Fields, skipped for any other rank   *)
FlattenField(t, fieldRank) ==
    IF t.err # "none" THEN t
    ELSE IF Rank(t) = fieldRank
        THEN Apply(t, "flatten", 0, <<Prod(t.shape)>>, t.dtype)
    ELSE IF Rank(t) = fieldRank + 1
        THEN Apply(t, "flatten", 1, <<t.shape[1], Prod(Tail(t.shape))>>, t.dtype)
    ELSE t

(* rearrange(z, "(w c) -> w c") / "t (w c) -> t w c" with the given sizes *)
Unflatten(t, sizes) ==
    IF t.err # "none" THEN t
    ELSE IF Rank(t) \in {1, 2}
        THEN IF Last(t.shape) # Prod(sizes) THEN Fail("EinopsError")
             ELSE Apply(t, "unflatten", 0, Front(t.shape) \o sizes, t.dtype)
    ELSE t

(* a dense network built for inputs of width win: it maps the last axis *)
DenseNet(t, name, win, wout) ==
    IF t.err # "none" THEN t
    ELSE IF Rank(t) = 0 \/ win < 0 THEN Fail("ShapeMismatch")
    ELSE IF Last(t.shape) # win THEN Fail("ShapeMismatch")
    ELSE Apply(t, name, 0, Front(t.shape) \o <<wout>>, "real")

(* a convolutional network built for (.., a, b, c) blocks: it maps the   *)
(* last three axes                                                         *)
ConvNet(t, name, blockIn, blockOut) ==
    IF t.err # "none" THEN t
    ELSE IF Rank(t) \notin {3, 4} THEN Fail("ShapeMismatch")
    ELSE IF SubSeq(t.shape, Rank(t) - 2, Rank(t)) # blockIn
        THEN Fail("ShapeMismatch")
    ELSE Apply(t, name, 0, SubSeq(t.shape, 1, Rank(t) - 3) \o blockOut, "real")

LatentBlock(m) ==
    <<m.d_latent_dims[1], m.d_latent_dims[2], m.d_latent_channels>>

(* FourierAutoencoder2D.encode: padded rfft2, truncation, flattening *)
FourierEncode(m, t) ==
    IF t.err # "none" THEN t
    ELSE IF Rank(t) < 3 THEN Fail("UnpackError")
    ELSE LET r    == Rank(t)
             W    == t.shape[r - 2]
             H    == t.shape[r - 1]
             C    == t.shape[r]
             kw   == SliceLen(W * 2 - 1, m.n_modes)
             kh   == SliceLen(RfftBins(H * 2 - 1), m.n_modes)
             X    == Apply(t, "rfft2", m.n_modes,
                           SubSeq(t.shape, 1, r - 3) \o <<kw, kh, C>>, "complex")
         IN FlattenField(X, 3)

(* encode *)
Encode(m, t) ==
    IF m.cls \in {"KoopmanAutoencoder1D", "KoopmanAutoencoder1DReal"}
        THEN DenseNet(FlattenField(t, 2), "encoder", Prod(FieldShape(m)),
                      m.hidden_dim)
    ELSE IF m.cls = "DenseKoopmanAutoencoder2D"
        THEN DenseNet(FlattenField(t, 3), "encoder", Prod(FieldShape(m)),
                      m.hidden_dim)
    ELSE IF m.cls = "KoopmanAutoencoder2D"
        THEN FlattenField(ConvNet(t, "encoder", FieldShape(m), LatentBlock(m)), 3)
    ELSE FourierEncode(m, t)

(* z[: n // 2] + 1j * z[n // 2 :] for a vector of n entries: the extent of *)
(* the sum, -1 when the two slices cannot be broadcast together            *)
SplitWidth(n) == BroadcastDim(n \div 2, n - n \div 2)

(* the same expression entry by entry: which entries of z make up the real *)
(* and the imaginary part of the k-th complex entry                         *)
SplitLayout(n) ==
    LET a == n \div 2
        b == n - a
        w == SplitWidth(n)
    IN IF w = -1 THEN <<>>
       ELSE [k \in 1..w |-> [re |-> IF a = 1 THEN 1 ELSE k,
                             im |-> a + (IF b = 1 THEN 1 ELSE k)]]

(* z + 1j * 0.0: entry k is z[k] with no imaginary part (im = 0) *)
RealLayout(n) == [k \in 1..n |-> [re |-> k, im |-> 0]]

(* jnp.concatenate([z.real, z.imag], axis=-1) for w complex entries *)
ConcatLayout(w) ==
    [j \in 1..(2 * w) |->
        IF j <= w THEN [part |-> "re", k |-> j] ELSE [part |-> "im", k |-> j - w]]

(* z.imag taken where z.real is meant *)
ImagPartLayout(w) == [j \in 1..w |-> [part |-> "im", k |-> j]]

(* z.real *)
RealPartLayout(w) == [j \in 1..w |-> [part |-> "re", k |-> j]]

(* the dynamics module: one complex latent per requested step *)
Dynamics(c, n) ==
    IF c.err # "none" THEN c
    ELSE IF Rank(c) # 1 THEN Fail("DynamicsInputError")
    ELSE Apply(c, "dynamics", n, <<n>> \o c.shape, "complex")

AdvanceOutcome(res, dynIn, steps, layout) ==
    [res |-> res, dyn_in |-> dynIn, steps |-> steps, layout |-> layout]

(* advance; steps is the number of steps handed to the dynamics *)
Advance(m, z, steps) ==
    IF z.err # "none" THEN AdvanceOutcome(z, <<>>, steps, <<>>)
    ELSE IF Rank(z) # 1
        THEN AdvanceOutcome(Fail("DynamicsInputError"), <<>>, steps, <<>>)
    ELSE IF m.cls \in ComplexVariants
        THEN LET n == z.shape[1]
                 w == SplitWidth(n)
                 c == Apply(z, "to_complex", 0, <<w>>, "complex")
                 t == Dynamics(c, steps)
             IN IF w = -1
                  THEN AdvanceOutcome(Fail("BroadcastError"), <<>>, steps, <<>>)
                ELSE AdvanceOutcome(
                         Apply(t, "concat_re_im", 0, <<steps, 2 * w>>, "real"),
                         SplitLayout(n), steps, ConcatLayout(w))
    ELSE IF m.cls = "KoopmanAutoencoder1DReal"
        THEN LET n == z.shape[1]
                 c == Apply(z, "plus_0j", 0, z.shape, "complex")
                 t == Dynamics(c, steps)
             IN AdvanceOutcome(Apply(t, "real", 0, t.shape, "real"),
                               RealLayout(n), steps, RealPartLayout(n))
    ELSE AdvanceOutcome(Dynamics(z, steps), <<>>, steps, <<>>)

(* width of the trajectory rows advance hands to the decoder, which is the *)
(* input width the decoder's parameters are created for; -1 when advance   *)
(* raises                                                                   *)
TrajectoryWidth(m) ==
    IF m.cls = "KoopmanAutoencoder1DReal" THEN HiddenDim(m)
    ELSE IF m.cls \in ComplexVariants
        THEN (IF SplitWidth(HiddenDim(m)) = -1 THEN -1
              ELSE 2 * SplitWidth(HiddenDim(m)))
    ELSE HiddenDim(m)

(* FourierAutoencoder2D.decode: unflatten to (modes, modes, d_vars), irfft2 *)
FourierDecode(m, z) ==
    LET u == Unflatten(z, <<m.n_modes, m.n_modes, m.d_vars>>)
    IN IF u.err # "none" THEN u
       ELSE IF Rank(u) < 3 THEN Fail("AxisError")
       ELSE LET r == Rank(u)
            IN Apply(u, "irfft2", 0,
                     SubSeq(u.shape, 1, r - 3)
                         \o <<m.d_model[1], m.d_model[2], u.shape[r]>>, "real")

(* decode *)
Decode(m, z) ==
    IF m.cls \in DenseVariants
        THEN Unflatten(DenseNet(z, "decoder", TrajectoryWidth(m),
                                Prod(FieldShape(m))), FieldShape(m))
    ELSE IF m.cls = "KoopmanAutoencoder2D"
        THEN ConvNet(Unflatten(z, LatentBlock(m)), "decoder", LatentBlock(m),
                     FieldShape(m))
    ELSE FourierDecode(m, z)

CallRecord(method, arg, res, encIn, enc, adv) ==
    [method |-> method, arg |-> arg, res |-> res, enc_in |-> encIn,
     enc |-> enc, adv |-> adv]

NoAdvance == AdvanceOutcome(NoArr, <<>>, 0, <<>>)

NoCall == CallRecord("none", NoArr, NoArr, NoArr, NoArr, NoAdvance)

(* a forward pass that rolls out as many steps as the input has timesteps  *)
(* instead of the configured n_steps                                       *)
ForwardAE_StepsFromInput(m, inp) ==
    LET encIn == IF m.cls \in KoopmanVariants THEN Index0(inp) ELSE inp
        z     == Encode(m, encIn)
        a     == Advance(m, z, inp.shape[1])
    IN CallRecord("__call__", inp, Decode(m, a.res), encIn, z, a)

(* __call__: encode, advance, decode *)
ForwardAE(m, inp) ==
    LET encIn == IF m.cls \in KoopmanVariants THEN Index0(inp) ELSE inp
        z     == Encode(m, encIn)
        steps == IF m.cls \in KoopmanVariants THEN m.n_steps ELSE inp.shape[1]
        a     == Advance(m, z, steps)
    IN CallRecord("__call__", inp, Decode(m, a.res), encIn, z, a)

(***************************************************************************)
(* Batched* = nn.vmap(cls, in_axes=0, out_axes=0,                          *)
(* variable_axes={"params": None}, split_rngs={"params": False}, methods)  *)
(***************************************************************************)
VmapInAxes == 0

(* the mapped axis of the outputs put after the leading axis *)
VmapOutAxesSecond == VmapInAxes + 1

VmapOutAxes == 0

AutoencoderMethods == {"__call__", "decode", "encode", "advance"}

(* the methods the Batched* wrapper of a class maps: those named by        *)
(* methods=, and __call__ alone when nn.vmap is given no methods           *)
WrappedMethods(cls) ==
    IF cls \in {"FNO1D", "FNO2D"} THEN {"__call__"} ELSE AutoencoderMethods

GenericParams == [kernels |-> FALSE, biases |-> FALSE, spectral |-> FALSE]

(* FNO1D.__call__ on an array with contents: every timestep is read *)
FNO1DForward(m, inp) ==
    LET r == FNO1D(m, Ok(inp.shape, FALSE), GenericParams)
    IN IF r.err # "none" THEN Fail(r.err)
       ELSE Apply(inp, "fno1d", 0, r.shape, "real")

(* a method call whose advance resumes from the trajectory the previous    *)
(* advance on this model returned instead of starting from its argument    *)
MethodCallFromCarry(m, method, arg, steps) ==
    IF method = "advance" /\ call.method = "advance" /\ call.res.err = "none"
        THEN LET a == Advance(m, Apply(arg, "resume", 0, arg.shape, arg.dtype),
                              IF m.cls \in KoopmanVariants THEN m.n_steps ELSE steps)
             IN CallRecord(method, arg, a.res, NoArr, NoArr, a)
    ELSE IF method = "encode"
        THEN CallRecord(method, arg, Encode(m, arg), NoArr, NoArr, NoAdvance)
    ELSE IF method = "decode"
        THEN CallRecord(method, arg, Decode(m, arg), NoArr, NoArr, NoAdvance)
    ELSE IF method = "advance"
        THEN LET a == Advance(m, arg,
                              IF m.cls \in KoopmanVariants THEN m.n_steps ELSE steps)
             IN CallRecord(method, arg, a.res, NoArr, NoArr, a)
    ELSE ForwardAE(m, arg)

(* one unbatched method call; steps is the extent of the steps argument   *)
(* of FourierAutoencoder2D.advance                                         *)
MethodCall(m, method, arg, steps) ==
    IF m.cls = "FNO1D"
        THEN CallRecord(method, arg, FNO1DForward(m, arg), NoArr, NoArr, NoAdvance)
    ELSE IF method = "encode"
        THEN CallRecord(method, arg, Encode(m, arg), NoArr, NoArr, NoAdvance)
    ELSE IF method = "decode"
        THEN CallRecord(method, arg, Decode(m, arg), NoArr, NoArr, NoAdvance)
    ELSE IF method = "advance"
        THEN LET a == Advance(m, arg,
                              IF m.cls \in KoopmanVariants THEN m.n_steps ELSE steps)
             IN CallRecord(method, arg, a.res, NoArr, NoArr, a)
    ELSE ForwardAE(m, arg)

(* the i-th slice along an axis of the stacked array whose slices along   *)
(* axis 0 are xs                                                           *)
StackSlice(xs, axis, i) ==
    IF axis = 0 THEN xs[i]
    ELSE Arr(<<Len(xs)>> \o Tail(xs[1].shape), xs[1].dtype,
             [j \in 1..Len(xs) |-> xs[j].src[i]], <<>>)

StackExtent(xs, axis) == IF axis = 0 THEN Len(xs) ELSE xs[1].shape[1]

RECURSIVE Concat(_)
Concat(ss) == IF ss = <<>> THEN <<>> ELSE Head(ss) \o Concat(Tail(ss))

(* the slices along axis 0 of the array that stacks rs along an axis *)
Restack(rs, axis) ==
    IF axis = 0 THEN rs
    ELSE [t \in 1..rs[1].shape[1] |->
            Arr(<<Len(rs)>> \o Tail(rs[1].shape), rs[1].dtype,
                Concat([i \in 1..Len(rs) |-> rs[i].src]),
                Append(rs[1].ops, Op("take", t)))]

BatchOutcome(method, args, steps, err, res) ==
    [method |-> method, args |-> args, steps |-> steps, err |-> err, res |-> res]

NoBatch == BatchOutcome("none", <<>>, 0, "unset", <<>>)

(* a mapped method applied to the stacked array whose axis-0 slices are xs *)
BatchedCall(m, method, xs, steps) ==
    LET n  == StackExtent(xs, VmapInAxes)
        rs == [i \in 1..n |->
                 MethodCall(m, method, StackSlice(xs, VmapInAxes, i), steps).res]
        bad == {i \in 1..n : rs[i].err # "none"}
    IN IF bad # {}
         THEN BatchOutcome(method, xs, steps, rs[CHOOSE i \in bad : TRUE].err, <<>>)
       ELSE BatchOutcome(method, xs, steps, "none", Restack(rs, VmapOutAxes))

(***************************************************************************)
(* create_train_state(model, rng, x_shape, num_steps, norm, ...,           *)
(* schedule_type): the statements that can raise, in program order.        *)
(* collections is the set of variable collections model.init returned.     *)
(***************************************************************************)
TrainStateOutcome(err, fields, norm) ==
    [err |-> err, fields |-> fields, norm |-> norm]

CreateTrainStateResult(initialised, collections, norm, schedule_type) ==
    IF initialised.err # "none" THEN TrainStateOutcome(initialised.err, {}, norm)
    ELSE IF norm = "batch" /\ "batch_stats" \notin collections
        THEN TrainStateOutcome("KeyError", {}, norm)
    ELSE IF schedule_type \notin {"cosine", "constant"}
        THEN TrainStateOutcome("ValueError", {}, norm)
    ELSE IF norm = "layer"
        THEN TrainStateOutcome("none", {"params", "key", "tx"}, norm)
    ELSE IF norm = "batch"
        THEN TrainStateOutcome("none", {"params", "key", "tx", "batch_stats"}, norm)
    ELSE TrainStateOutcome("UnboundLocalError", {}, norm)

(***************************************************************************)
(* The program: choose a class and its constructor arguments, construct    *)
(* it (setup), then either call it on an input or make a train state.      *)
(***************************************************************************)

(* norm values a caller can pass; "('layer',)" is FNO1D's default, the     *)
(* one-element tuple of fno.py line 107                                    *)
Norms == {"layer", "batch", "instance", "('layer',)"}

ScheduleTypes == {"cosine", "constant", "linear"}

Conv1dConfigs ==
    [cls : {"SpectralConv1d"}, in_channels : 1..MaxChannels,
     d_vars : 1..MaxChannels, n_modes : 1..(MaxW + 1)]

Conv2dConfigs ==
    [cls : {"SpectralConv2d"}, in_channels : 1..MaxChannels,
     out_channels : 1..MaxChannels, n_modes1 : 1..(2 * MaxW),
     n_modes2 : 1..(MaxW + 1)]

(* the worked scenario of the test notebook *)
ScenarioFNO1D ==
    [cls |-> "FNO1D", hidden_channels |-> 32, n_modes |-> 20, d_vars |-> 1,
     n_layers |-> 4, n_steps |-> 4, norm |-> "('layer',)"]

ScenarioInput == Ok(<<1, 101, 1>>, FALSE)

FNO1DConfigs ==
    [cls : {"FNO1D"}, hidden_channels : 1..MaxChannels, n_modes : 1..(MaxW + 1),
     d_vars : 1..MaxChannels, n_layers : 1..MaxLayers, n_steps : 1..MaxSteps,
     norm : Norms] \cup {ScenarioFNO1D}

ParamStates ==
    { [kernels |-> TRUE, biases |-> TRUE, spectral |-> TRUE],
      [kernels |-> TRUE, biases |-> FALSE, spectral |-> TRUE],
      [kernels |-> FALSE, biases |-> FALSE, spectral |-> FALSE] }

NoState == TrainStateOutcome("unset", {}, "unset")

(* inputs a caller can hand to a module of configuration m *)
InputsFor(m) ==
    IF m.cls = "SpectralConv1d"
        THEN { Ok(<<W, m.in_channels>>, z) : W \in 1..MaxW, z \in BOOLEAN }
    ELSE IF m.cls = "SpectralConv2d"
        THEN { Ok(<<H, W, m.in_channels>>, z) :
                 H \in 1..MaxW, W \in 1..MaxW, z \in BOOLEAN }
    ELSE IF m = ScenarioFNO1D
        THEN { ScenarioInput, Ok(ScenarioInput.shape, TRUE) }
    ELSE { Ok(<<T, W, C>>, z) :
             T \in 1..MaxSteps, W \in 1..MaxW, C \in 1..MaxChannels,
             z \in BOOLEAN }

(* the unbatched forward call of the module *)
Forward(m, inp, p) ==
    IF m.cls = "SpectralConv1d" THEN SpectralConv1d(m, inp, p)
    ELSE IF m.cls = "SpectralConv2d" THEN SpectralConv2d(m, inp, p)
    ELSE FNO1D(m, inp, p)

Init ==
    /\ pc = "args"
    /\ model \in Conv1dConfigs \cup Conv2dConfigs \cup FNO1DConfigs
    /\ params \in ParamStates
    /\ lib \in [irfft_zero_raises : BOOLEAN]
    /\ x = NoTensor
    /\ y = NoTensor
    /\ ts = NoState
    /\ call = NoCall
    /\ prev = NoCall
    /\ batch = NoBatch

(* setup(): declares the parameters; no argument is validated *)
Construct ==
    /\ pc = "args"
    /\ pc' = "built"
    /\ UNCHANGED <<model, params, lib, x, y, ts, call, prev, batch>>

Call ==
    /\ pc = "built"
    /\ \E inp \in InputsFor(model) :
          /\ x' = inp
          /\ y' = Forward(model, inp, params)
    /\ pc' = "called"
    /\ UNCHANGED <<model, params, lib, ts, call, prev, batch>>

CreateTrainState ==
    /\ pc = "built"
    /\ model.cls = "FNO1D"
    /\ \E inp \in InputsFor(model), norm \in Norms, st \in ScheduleTypes :
          /\ x' = inp
          /\ ts' = CreateTrainStateResult(Forward(model, inp, params),
                                          {"params"}, norm, st)
    /\ pc' = "state_made"
    /\ UNCHANGED <<model, params, lib, y, call, prev, batch>>

Next == Construct \/ Call \/ CreateTrainState

Spec == Init /\ [][Next]_vars

(***************************************************************************)
(* The autoencoder program: construct a model, call one of its methods or  *)
(* a mapped method of its Batched* wrapper, then call it again.            *)
(***************************************************************************)
Pairs(n) == { <<a, b>> : a \in 1..n, b \in 1..n }

Koopman1DConfigs ==
    [cls : {"KoopmanAutoencoder1D", "KoopmanAutoencoder1DReal"},
     d_model : 1..MaxW, d_vars : 1..MaxChannels, n_steps : 1..MaxSteps,
     hidden_dim : 1..MaxHidden]

DenseKoopman2DConfigs ==
    [cls : {"DenseKoopmanAutoencoder2D"}, d_model : Pairs(MaxChannels),
     d_vars : 1..MaxChannels, n_steps : 1..MaxSteps, hidden_dim : 1..MaxHidden]

(* d_model and d_vars name the Field the convolutional encoder and decoder *)
(* handed to KoopmanAutoencoder2D are built for                            *)
Koopman2DConfigs ==
    { [cls |-> "KoopmanAutoencoder2D", d_model |-> d, d_vars |-> c,
       d_latent_dims |-> d, d_latent_channels |-> lc, n_steps |-> n] :
        d \in Pairs(MaxChannels), c \in 1..MaxChannels, lc \in 1..MaxChannels,
        n \in 1..MaxSteps }

Fourier2DConfigs ==
    [cls : {"FourierAutoencoder2D"}, d_model : Pairs(MaxChannels),
     d_vars : 1..MaxChannels, n_modes : 1..(MaxW + 1)]

BatchedFNO1DConfigs ==
    [cls : {"FNO1D"}, hidden_channels : {1}, n_modes : 1..MaxW,
     d_vars : 1..MaxChannels, n_layers : {1}, n_steps : 1..MaxSteps,
     norm : {"layer"}]

AEConfigs ==
    Koopman1DConfigs \cup DenseKoopman2DConfigs \cup Koopman2DConfigs
        \cup Fourier2DConfigs

RECURSIVE Shapes(_, _)
(* all shapes of the given rank with extents 1..n *)
Shapes(rank, n) ==
    IF rank = 0 THEN { <<>> }
    ELSE { <<d>> \o s : d \in 1..n, s \in Shapes(rank - 1, n) }

(* a caller's real array of a shape, one content identifier per slice *)
Inputs(shape) ==
    { Arr(shape, "real", src, <<>>) : src \in [1..shape[1] -> ContentIds] }

(* a caller's array all of whose slices hold content c *)
Uniform(shape, dtype, c) == Arr(shape, dtype, [i \in 1..shape[1] |-> c], <<>>)

StackedFieldShapes(m) ==
    { <<T>> \o (IF m.cls = "FNO1D" THEN <<MaxW, m.d_vars>> ELSE FieldShape(m)) :
        T \in 1..MaxSteps }

(* arguments of the forward call *)
ForwardInputs(m) ==
    UNION { Inputs(s) : s \in StackedFieldShapes(m)
                \cup (IF m.cls = "FourierAutoencoder2D" THEN {FieldShape(m)}
                      ELSE {}) }

(* arguments of encode: arrays of every rank and extent *)
EncodeInputs(m) ==
    LET n  == IF m.cls \in {"KoopmanAutoencoder1D", "KoopmanAutoencoder1DReal"}
                THEN MaxW ELSE MaxChannels
        lo == Len(FieldShape(m)) - 1
    IN { Uniform(s, "real", 1) :
           s \in Shapes(lo, n) \cup Shapes(lo + 1, n) \cup Shapes(lo + 2, n) }

LatentDtype(m) == IF m.cls = "FourierAutoencoder2D" THEN "complex" ELSE "real"

(* arguments of advance: latent vectors of every width *)
AdvanceInputs(m) ==
    { Uniform(<<n>>, LatentDtype(m), 1) : n \in 1..MaxHidden }

(* arguments of decode: latent vectors and trajectories of every width *)
DecodeInputs(m) ==
    { Uniform(s, LatentDtype(m), 1) :
        s \in { <<n>> : n \in 1..(MaxHidden + 1) }
                \cup { <<T, n>> : T \in 1..MaxSteps, n \in 1..(MaxHidden + 1) } }

ArgsOf(m, method) ==
    IF method = "encode" THEN EncodeInputs(m)
    ELSE IF method = "advance" THEN AdvanceInputs(m)
    ELSE IF method = "decode" THEN DecodeInputs(m)
    ELSE ForwardInputs(m)

(* stacks of N same-shaped arguments; the slices of element i hold the    *)
(* contents i*(MaxW+MaxHidden)+1, i*(MaxW+MaxHidden)+2, ... when distinct  *)
(* is set (no two elements of a stack then share a content), and           *)
(* content 1 otherwise                                                     *)
MaxBatch == 2

Stacks(m, method) ==
    { [i \in 1..N |->
         Arr(a.shape, a.dtype,
             [t \in 1..a.shape[1] |-> IF distinct THEN i * (MaxW + MaxHidden) + t ELSE 1],
             <<>>)] :
        N \in 1..MaxBatch, distinct \in BOOLEAN,
        a \in { b \in ArgsOf(m, method) : \A t \in 1..b.shape[1] : b.src[t] = 1 } }

InitAE ==
    /\ pc = "args"
    /\ model \in AEConfigs \cup BatchedFNO1DConfigs
    /\ params = GenericParams
    /\ lib \in [irfft_zero_raises : IF model.cls = "FNO1D" THEN BOOLEAN ELSE {TRUE}]
    /\ x = NoTensor
    /\ y = NoTensor
    /\ ts = NoState
    /\ call = NoCall
    /\ prev = NoCall
    /\ batch = NoBatch

(* setup(): builds encoder, decoder and dynamics; no argument is validated *)
ConstructAE ==
    /\ pc = "args"
    /\ pc' = "built"
    /\ UNCHANGED <<model, params, lib, x, y, ts, call, prev, batch>>

CallEncode ==
    /\ pc = "built"
    /\ model.cls # "FNO1D"
    /\ \E arg \in EncodeInputs(model) : call' = MethodCall(model, "encode", arg, 0)
    /\ pc' = "called"
    /\ UNCHANGED <<model, params, lib, x, y, ts, prev, batch>>

CallAdvance ==
    /\ pc = "built"
    /\ model.cls # "FNO1D"
    /\ \E arg \in AdvanceInputs(model), steps \in 1..MaxSteps :
          /\ model.cls \in KoopmanVariants => steps = model.n_steps
          /\ call' = MethodCall(model, "advance", arg, steps)
    /\ pc' = "called"
    /\ UNCHANGED <<model, params, lib, x, y, ts, prev, batch>>

CallDecode ==
    /\ pc = "built"
    /\ model.cls # "FNO1D"
    /\ \E arg \in DecodeInputs(model) : call' = MethodCall(model, "decode", arg, 0)
    /\ pc' = "called"
    /\ UNCHANGED <<model, params, lib, x, y, ts, prev, batch>>

CallForward ==
    /\ pc = "built"
    /\ \E arg \in ForwardInputs(model) :
          call' = MethodCall(model, "__call__", arg, 0)
    /\ pc' = "called"
    /\ UNCHANGED <<model, params, lib, x, y, ts, prev, batch>>

(* a second forward call on the same model *)
CallForwardAgain ==
    /\ pc = "called"
    /\ call.method = "__call__"
    /\ \E arg \in ForwardInputs(model) :
          call' = MethodCall(model, "__call__", arg, 0)
    /\ prev' = call
    /\ pc' = "recalled"
    /\ UNCHANGED <<model, params, lib, x, y, ts, batch>>

CallBatched ==
    /\ pc = "built"
    /\ \E method \in WrappedMethods(model.cls), steps \in 1..MaxSteps :
          /\ (model.cls \in KoopmanVariants \/ method # "advance")
                => steps = (IF model.cls \in KoopmanVariants THEN model.n_steps ELSE 1)
          /\ \E xs \in Stacks(model, method) :
                batch' = BatchedCall(model, method, xs, steps)
    /\ pc' = "called"
    /\ UNCHANGED <<model, params, lib, x, y, ts, call, prev>>

NextAE ==
    \/ ConstructAE
    \/ CallEncode
    \/ CallAdvance
    \/ CallDecode
    \/ CallForward
    \/ CallForwardAgain
    \/ CallBatched

SpecAE == InitAE /\ [][NextAE]_vars

(***************************************************************************)
(* Properties of the spectral layers and of FNO1D                          *)
(***************************************************************************)

AllZero(p) == p.kernels /\ p.biases /\ p.spectral

SupportedNorms == {"layer", "batch"}

(* C1: FNO1D with n_steps = T_out and d_vars = D maps every input          *)
(* (T_in, W, C) to an output of shape (T_out, W, D) whenever               *)
(* 1 <= n_modes <= W; the scenario W=101, n_modes=20, n_steps=4, d_vars=1  *)
(* is one such case and must give (4, 101, 1).                             *)
C1_FNO1DOutputShape ==
    (pc = "called" /\ model.cls = "FNO1D" /\ model.n_modes <= x.shape[2])
        => /\ y.err = "none"
           /\ y.shape = <<model.n_steps, x.shape[2], model.d_vars>>

(* C2: a spectral layer returns the spatial size it was given:             *)
(* SpectralConv1d maps (W, C_in) to (W, d_vars) and SpectralConv2d maps    *)
(* (H, W, C_in) to (H, W, out_channels), for every mode count within the   *)
(* frequency bins available after padding.                                 *)
C2_SpectralLayerKeepsSpatialSize ==
    /\ (pc = "called" /\ model.cls = "SpectralConv1d"
            /\ model.n_modes <= RfftBins(x.shape[1] * 2 - 1))
          => (y.err = "none" /\ y.shape = <<x.shape[1], model.d_vars>>)
    /\ (pc = "called" /\ model.cls = "SpectralConv2d"
            /\ model.n_modes1 <= x.shape[1] * 2 - 1
            /\ model.n_modes2 <= RfftBins(x.shape[2] * 2 - 1))
          => (y.err = "none"
                /\ y.shape = <<x.shape[1], x.shape[2], model.out_channels>>)

(* C8: a norm that is neither "layer" nor "batch" is rejected with a       *)
(* configuration error: no model is constructed with it, and               *)
(* create_train_state called with it raises a ValueError.                  *)
C8_UnsupportedNormRejected ==
    /\ (model.cls = "FNO1D" /\ model.norm \notin SupportedNorms) => pc = "args"
    /\ (pc = "state_made" /\ ts.norm \notin SupportedNorms)
          => ts.err = "ValueError"

(* C9: with every parameter of FNO1D equal to zero the forward pass        *)
(* returns an output that is exactly zero everywhere, for every input and  *)
(* every configuration with 1 <= n_modes <= W.                             *)
C9_ZeroParamsZeroOutput ==
    (pc = "called" /\ model.cls = "FNO1D" /\ AllZero(params)
        /\ model.n_modes <= x.shape[2])
      => (y.err = "none" /\ y.zero)

(***************************************************************************)
(* Properties of the autoencoders and of the Batched* wrappers             *)
(***************************************************************************)

Koopman1DVariants == {"KoopmanAutoencoder1D", "KoopmanAutoencoder1DReal"}

(* the shape contract of one forward call of a 1D Koopman autoencoder *)
ShapeContract(c) ==
    /\ c.adv.res.err = "none"
    /\ c.adv.res.shape = <<model.n_steps, model.hidden_dim>>
    /\ c.res.err = "none"
    /\ c.res.shape = <<model.n_steps>> \o Tail(c.arg.shape)

C4_ComplexSplitLayout ==
    (call.method = "advance" /\ model.cls \in ComplexVariants)
        => LET n == call.arg.shape[1]
               h == n \div 2
           IN IF n % 2 = 0
                THEN /\ call.res.err = "none"
                     /\ call.adv.dyn_in = [k \in 1..h |-> [re |-> k, im |-> h + k]]
                     /\ call.res.shape = <<model.n_steps, n>>
                     /\ call.adv.layout =
                          [j \in 1..n |-> IF j <= h THEN [part |-> "re", k |-> j]
                                          ELSE [part |-> "im", k |-> j - h]]
              ELSE call.res.err # "none"

(* the content identifiers an array was computed from *)
Sources(t) == { t.src[k] : k \in DOMAIN t.src }

ModesAvailable(m) ==
    Min(m.d_model[1] * 2 - 1, RfftBins(m.d_model[2] * 2 - 1))

(* C6: a spectral encoder configured with more modes than the padded       *)
(* transform has bins is rejected at construction, and no encode call      *)
(* returns a latent holding fewer modes than n_modes.                      *)
C6_TooManyModesRejected ==
    /\ (model.cls = "FourierAutoencoder2D" /\ model.n_modes > ModesAvailable(model))
          => pc = "args"
    /\ (model.cls = "FourierAutoencoder2D" /\ call.method = "encode"
            /\ call.res.err = "none")
          => Last(call.res.shape) >= model.n_modes * model.n_modes

(* C7: encode on an array that is neither a Field of the configured        *)
(* d_model and d_vars nor a stack of such Fields raises a shape-mismatch   *)
(* error.                                                                  *)
C7_EncodeRejectsOtherShapes ==
    (call.method = "encode" /\ model.cls # "FNO1D"
        /\ call.arg.shape # FieldShape(model)
        /\ Tail(call.arg.shape) # FieldShape(model))
      => call.res.err # "none"

(* C10: the forward pass of every autoencoder hands encode the first       *)
(* timestep x[0] only, and two forward calls whose inputs agree on x[0]    *)
(* return identical trajectories.                                          *)
C10_ForwardReadsFirstTimestepOnly ==
    /\ (call.method = "__call__" /\ model.cls # "FNO1D")
          => call.enc_in = Index0(call.arg)
    /\ (pc = "recalled" /\ model.cls # "FNO1D"
            /\ Index0(prev.arg) = Index0(call.arg))
          => prev.res = call.res

(***************************************************************************)
(* Sequences of inference calls on one autoencoder:                        *)
(* model.apply({"params": params}, arg, method=...) any number of times.   *)
(* prev remembers one of the earlier calls, whichever.                     *)
(***************************************************************************)
SeqConfigs ==
    { m \in AEConfigs :
        /\ m.d_vars = 1
        /\ m.cls \in DenseVariants => m.hidden_dim \in {2, 3}
        /\ m.cls \in {"KoopmanAutoencoder1D", "KoopmanAutoencoder1DReal"}
              => m.d_model = 2
        /\ m.cls \notin {"KoopmanAutoencoder1D", "KoopmanAutoencoder1DReal"}
              => m.d_model[1] = 1
        /\ m.cls = "FourierAutoencoder2D" => m.n_modes = 1 }

(* arguments of the calls of a sequence: Fields, latents and trajectories  *)
(* of the configured shapes, with either content                           *)
SeqArgs(m, method) ==
    IF method = "encode" THEN Inputs(FieldShape(m))
    ELSE IF method = "advance"
        THEN { Uniform(<<HiddenDim(m)>>, LatentDtype(m), c) : c \in ContentIds }
    ELSE IF method = "decode"
        THEN { Uniform(<<T, TrajectoryWidth(m)>>, LatentDtype(m), c) :
                 T \in 1..MaxSteps, c \in ContentIds }
    ELSE ForwardInputs(m)

InitSeq ==
    /\ InitAE
    /\ model \in SeqConfigs

(* apply without mutable collections and without rngs: the call returns    *)
(* its result only, the variables handed in are the caller's, unchanged    *)
ApplyMethod ==
    /\ pc \in {"built", "applied"}
    /\ \E method \in AutoencoderMethods, steps \in 1..MaxSteps :
          /\ (model.cls \in KoopmanVariants \/ method # "advance")
                => steps = (IF model.cls \in KoopmanVariants THEN model.n_steps ELSE 1)
          /\ \E arg \in SeqArgs(model, method) :
                call' = MethodCall(model, method, arg, steps)
    /\ prev' \in {prev, call}
    /\ pc' = "applied"
    /\ UNCHANGED <<model, params, lib, x, y, ts, batch>>

NextSeq ==
    \/ ConstructAE
    \/ ApplyMethod

SpecSeq == InitSeq /\ [][NextSeq]_vars

(* two calls of the same method with the same arguments *)
SameCall(a, b) ==
    /\ a.method = b.method
    /\ a.arg = b.arg
    /\ a.adv.steps = b.adv.steps

GridChannels == 2

(* self.grid: coordinates over the configured spatial extents *)
PositionalGrid(m) == <<m.d_model[1], m.d_model[2], GridChannels>>

(* jnp.concatenate([x, self.grid], axis=-1) *)
ConcatGrid(m, t) ==
    IF t.err # "none" THEN t
    ELSE IF Rank(t) # 3 \/ Front(t.shape) # Front(PositionalGrid(m))
        THEN Fail("ConcatenateError")
    ELSE Apply(t, "concat_grid", 0,
               Front(t.shape) \o <<Last(t.shape) + GridChannels>>, t.dtype)

(* what encode transforms: x, with the grid when use_positions is set *)
EncodeOperand(m, t) == IF m.use_positions THEN ConcatGrid(m, t) ELSE t

(* s of rfft2 in encode: (W * 2 - 1, H * 2 - 1) of the transformed array *)
EncodeTransformLength(t) ==
    IF t.err # "none" \/ Rank(t) < 3 THEN <<>>
    ELSE <<t.shape[Rank(t) - 2] * 2 - 1, t.shape[Rank(t) - 1] * 2 - 1>>

(* the (w, h, c) block encode flattens *)
EncodeBlock(m, t) ==
    IF t.err # "none" \/ Rank(t) < 3 THEN <<>>
    ELSE <<SliceLen(t.shape[Rank(t) - 2] * 2 - 1, m.n_modes),
           SliceLen(RfftBins(t.shape[Rank(t) - 1] * 2 - 1), m.n_modes),
           Last(t.shape)>>

(* s of irfft2 in decode *)
DecodeTransformLength(m) == <<m.d_model[1], m.d_model[2]>>

(* the (w, h, c) block decode unflattens to *)
DecodeBlock(m) == <<m.n_modes, m.n_modes, m.d_vars>>

RoundTripRecord(arg, enc, res, encS, decS, encBlock, decBlock) ==
    [method |-> "encode_decode", arg |-> arg, enc |-> enc, res |-> res,
     enc_s |-> encS, dec_s |-> decS, enc_block |-> encBlock,
     dec_block |-> decBlock]

(* decode(encode(x)) *)
FourierRoundTrip(m, t) ==
    LET operand == EncodeOperand(m, t)
        z       == FourierEncode(m, operand)
    IN RoundTripRecord(t, z, FourierDecode(m, z), EncodeTransformLength(operand),
                       DecodeTransformLength(m), EncodeBlock(m, operand),
                       DecodeBlock(m))

FourierDetailConfigs ==
    [cls : {"FourierAutoencoder2D"}, d_model : Pairs(MaxW),
     d_vars : 1..MaxChannels, n_modes : 1..MaxW, use_positions : BOOLEAN]

InitFourier ==
    /\ pc = "args"
    /\ model \in FourierDetailConfigs
    /\ params = GenericParams
    /\ lib = [irfft_zero_raises |-> TRUE]
    /\ x = NoTensor
    /\ y = NoTensor
    /\ ts = NoState
    /\ call = NoCall
    /\ prev = NoCall
    /\ batch = NoBatch

(* z = model.encode(x); model.decode(z), on a Field or a stack of Fields   *)
(* of the configured d_model and d_vars                                    *)
EncodeThenDecode ==
    /\ pc = "built"
    /\ \E arg \in Inputs(FieldShape(model))
                    \cup UNION { Inputs(<<T>> \o FieldShape(model)) :
                                   T \in 1..MaxSteps } :
          call' = FourierRoundTrip(model, arg)
    /\ pc' = "called"
    /\ UNCHANGED <<model, params, lib, x, y, ts, prev, batch>>

NextFourier ==
    \/ ConstructAE
    \/ EncodeThenDecode

SpecFourier == InitFourier /\ [][NextFourier]_vars

(* C12: for every configuration with n_modes within the available bins and *)
(* every x of shape (W, H, C) or (T, W, H, C), decode accepts encode(x),    *)
(* returns a field of the shape of x, unflattens to the (modes, modes,     *)
(* channels) block encode flattened and inverts the transform at the       *)
(* transform length encode used.                                           *)
C12_DecodeInvertsEncode ==
    (pc = "called" /\ call.method = "encode_decode"
        /\ model.n_modes <= ModesAvailable(model))
      => /\ call.res.err = "none"
         /\ call.res.shape = call.arg.shape
         /\ call.enc_block = call.dec_block
         /\ call.enc_s = call.dec_s

(* C13: FourierAutoencoder2D.encode of a Field (W, H, C) returns one       *)
(* real-valued vector of width 2 * n_modes * n_modes * C, the real parts   *)
(* and the imaginary parts of the truncated coefficients laid out          *)
(* contiguously; it returns no complex values.                             *)
C13_EncodeReturnsRealVector ==
    (call.method = "encode" /\ model.cls = "FourierAutoencoder2D"
        /\ Rank(call.arg) = 3)
      => /\ call.res.err = "none"
         /\ call.res.dtype = "real"
         /\ call.res.shape
              = <<2 * model.n_modes * model.n_modes * call.arg.shape[3]>>

(* C14: in KoopmanAutoencoder1DReal advance on a real latent of length n   *)
(* hands the dynamics a complex vector of length n whose k-th entry is     *)
(* z[k] with imaginary part zero, and returns for each of the n_steps      *)
(* steps the real parts only: a real trajectory of shape (n_steps, n); in  *)
(* the forward pass no imaginary part reaches the decoder.                 *)
C14_RealVariantDropsImaginaryParts ==
    /\ (call.method = "advance" /\ model.cls = "KoopmanAutoencoder1DReal")
          => LET n == call.arg.shape[1]
             IN /\ call.res.err = "none"
                /\ call.adv.dyn_in = [k \in 1..n |-> [re |-> k, im |-> 0]]
                /\ call.res.shape = <<model.n_steps, n>>
                /\ call.res.dtype = "real"
                /\ call.adv.layout = [j \in 1..n |-> [part |-> "re", k |-> j]]
    /\ (call.method = "__call__" /\ model.cls = "KoopmanAutoencoder1DReal"
            /\ call.adv.res.err = "none")
          => /\ call.adv.res.dtype = "real"
             /\ \A j \in DOMAIN call.adv.layout : call.adv.layout[j].part = "re"

(* advance of KoopmanAutoencoder1DReal has returned a two-step trajectory  *)
(* for a latent of odd length                                              *)
C14_Witness ==
    /\ call.method = "advance"
    /\ model.cls = "KoopmanAutoencoder1DReal"
    /\ model.n_steps = 2
    /\ call.arg.shape = <<3>>
    /\ call.res.err = "none"

(***************************************************************************)
(* The spectral layers in detail: transform lengths and normalisations,    *)
(* the rows and columns of the spectrum the weights are applied to, the    *)
(* factor a zero-frequency-only filter applies to a constant field, and    *)
(* the channel layout of temporal bundling.                                *)
(***************************************************************************)

(* n of jnp.fft.rfft in SpectralConv1d.__call__ for W grid points; the     *)
(* layer pads whatever its linear_conv field says                          *)
Conv1dTransformLength(m, W) == W * 2 - 1

(* the squared factor, as <<numerator, denominator>>, by which a constant  *)
(* field of W points is scaled when it is zero-padded to fwdN points,      *)
(* transformed with norm="ortho" (zero-frequency coefficient               *)
(* W * c / sqrt(fwdN)), filtered down to that coefficient alone and        *)
(* transformed back with norm="ortho" to invN points (each equal to the    *)
(* coefficient / sqrt(invN))                                               *)
DCGainSquared(W, fwdN, invN) == <<W * W, fwdN * invN>>

Conv1dRun(res, fwdN, kept, invN, gain) ==
    [method |-> "SpectralConv1d", res |-> res, fwd_n |-> fwdN,
     fwd_norm |-> "ortho", kept |-> kept, inv_n |-> invN, inv_norm |-> "ortho",
     gain |-> gain]

(* SpectralConv1d.__call__ on an input of shape (W, C); dc is TRUE when    *)
(* the input is spatially constant and the zero-frequency weight is the    *)
(* identity channel map, every other mode weight being zero                *)
Conv1dDetail(m, W, C, dc) ==
    LET fwdN == Conv1dTransformLength(m, W)
        kept == SliceLen(RfftBins(fwdN), m.n_modes)
        invN == IrfftDefaultLen(BroadcastDim(kept, m.n_modes))
        res  == SpectralConv1d(m, Ok(<<W, C>>, FALSE), GenericParams)
    IN Conv1dRun(res, fwdN, kept, invN,
                 IF dc /\ res.err = "none" /\ invN > 0
                   THEN DCGainSquared(W, fwdN, invN) ELSE <<>>)

(* X[: n] along an axis of R rows: the row indices taken, from 0 *)
UpRows(R, n) == [i \in 1..Min(n, R) |-> i - 1]

(* the n rows that follow the first n, X[n : 2 * n], taken where the last  *)
(* n rows are meant                                                        *)
RowsAfterUp(R, n) == [i \in 1..Min(n, IF R > n THEN R - n ELSE 0) |-> n + i - 1]

(* X[-n :] along an axis of R rows *)
DownRows(R, n) == [i \in 1..Min(n, R) |-> R - Min(n, R) + i - 1]

(* the signed wavenumber that row `row`, from 0, of a full (two-sided)     *)
(* transform axis of n rows stands for: 0, 1, ..., then the negative ones  *)
(* up to -1 (the order of jnp.fft.fftfreq)                                 *)
SignedWavenumber(row, n) == IF 2 * row < n THEN row ELSE row - n

(* irfft2(out_ft, s=(H, W), axes=(0, 1)) on its first axis: out_ft is cut  *)
(* to its first n rows, or zero rows are appended after its last row, and  *)
(* row i of the result is read as row i of an n-row spectrum               *)
IrfftRows(rows, n) ==
    [i \in 1..n |-> IF i <= Len(rows) THEN rows[i]
                    ELSE [row |-> -1, weight |-> 0]]

(* one block of out_ft: einsum("xyi,ioxy->xyo") of the rows taken with a   *)
(* weight block of n rows; a single row is broadcast to the n weight rows  *)
WeightedRows(rows, n, weight) ==
    [i \in 1..BroadcastDim(Len(rows), n) |->
        [row |-> rows[IF Len(rows) = 1 THEN 1 ELSE i], weight |-> weight]]

Conv2dRun(res, fwdS, rows, cols, invS) ==
    [method |-> "SpectralConv2d", res |-> res, fwd_s |-> fwdS,
     fwd_norm |-> "ortho", rows |-> rows, cols |-> cols, inv_s |-> invS,
     inv_norm |-> "backward"]

(* SpectralConv2d.__call__ on an input of shape (H, W, C) *)
Conv2dDetail(m, H, W, C) ==
    LET R   == H * 2 - 1
        res == SpectralConv2d(m, Ok(<<H, W, C>>, FALSE), GenericParams)
    IN IF res.err # "none" THEN Conv2dRun(res, <<R, W * 2 - 1>>, <<>>, <<>>, <<H, W>>)
       ELSE Conv2dRun(res, <<R, W * 2 - 1>>,
                      WeightedRows(UpRows(R, m.n_modes1), m.n_modes1, 1)
                          \o WeightedRows(DownRows(R, m.n_modes1), m.n_modes1, 2),
                      UpRows(RfftBins(W * 2 - 1), m.n_modes2), <<H, W>>)

(* rearrange(x, "t w c -> w (t c)") with c in the place of t: channel      *)
(* c * T + t                                                               *)
BundleChannelMajor(t, c, T, C) == c * T + t

(* rearrange(x, "t w c -> w (t c)") and "t h w c -> h w (t c)": the        *)
(* channel, from 0, that entry (t, c) of an input of T timesteps and C     *)
(* channels becomes                                                        *)
BundleChannel(t, c, T, C) == t * C + c

(* rearrange(y, "w (t c) -> t w c", t=n_steps, c=d_vars) and its 2D form:  *)
(* the (t, c) entry that output channel k becomes                          *)
UnbundleChannel(k, n_steps, d_vars) == <<k \div d_vars, k % d_vars>>

BundleLayout(T, C) ==
    [tc \in (0..(T - 1)) \X (0..(C - 1)) |-> BundleChannel(tc[1], tc[2], T, C)]

UnbundleLayout(n_steps, d_vars) ==
    [k \in 0..(n_steps * d_vars - 1) |-> UnbundleChannel(k, n_steps, d_vars)]

(* nn.Dense / nn.Conv(kernel_size=(1,)) on an array of any rank: a         *)
(* pointwise affine map of the last axis                                   *)
DenseLast(h, features, p) ==
    IF h.err # "none" THEN h
    ELSE Ok(Front(h.shape) \o <<features>>, (h.zero \/ p.kernels) /\ p.biases)

(* x1 + x2 for two arrays of the same rank *)
AddBroadcast(x1, x2) ==
    IF x1.err # "none" THEN x1
    ELSE IF x2.err # "none" THEN x2
    ELSE LET dims == [i \in 1..Len(x1.shape) |->
                        BroadcastDim(x1.shape[i], x2.shape[i])]
         IN IF \E i \in 1..Len(dims) : dims[i] = -1 THEN Raise("BroadcastError")
            ELSE Ok(dims, x1.zero /\ x2.zero)

(* FNO2D.advance on an array (H, W, channels) *)
FNO2DAdvance(m, h, p) ==
    LET h0 == IF m.use_positions
                THEN (IF Front(h.shape) # Front(PositionalGrid(m))
                        THEN Raise("ConcatenateError")
                      ELSE Ok(Front(h.shape) \o <<Last(h.shape) + GridChannels>>,
                              FALSE))
              ELSE h
        h1 == DenseLast(h0, m.hidden_channels, p)
        conv == [in_channels |-> m.hidden_channels,
                 out_channels |-> m.hidden_channels,
                 n_modes1 |-> m.n_modes, n_modes2 |-> m.n_modes]
        x1 == IF h1.err # "none" THEN h1 ELSE SpectralConv2d(conv, h1, p)
        x2 == DenseLast(h1, m.hidden_channels, p)
        h2 == Activation(AddBroadcast(x1, x2))
    IN DenseLast(Activation(DenseLast(h2, ProjectionWidth, p)),
                 m.d_vars * m.n_steps, p)

(* FNO2D.__call__ on an input (T, H, W, C), with one spectral layer *)
FNO2D(m, inp, p) ==
    IF Len(inp.shape) # 4 THEN Raise("EinopsError")
    ELSE LET y2 == FNO2DAdvance(m, Ok(<<inp.shape[2], inp.shape[3],
                                         inp.shape[1] * inp.shape[4]>>, inp.zero), p)
         IN IF y2.err # "none" THEN y2
            ELSE Ok(<<m.n_steps, y2.shape[1], y2.shape[2], m.d_vars>>, y2.zero)

(* a forward call of FNO1D or FNO2D: the result, the channel each input    *)
(* entry (t, c) is flattened to, the (t, c) each output channel is         *)
(* reshaped to, and the linear_conv the spectral layers are built with     *)
FNORun(cls, res, T, C, n_steps, d_vars) ==
    [method |-> cls, res |-> res, in_channel |-> BundleLayout(T, C),
     out_index |-> UnbundleLayout(n_steps, d_vars), layer_linear_conv |-> TRUE]

FNODetail(m, shape) ==
    LET res == IF m.cls = "FNO1D" THEN FNO1D(m, Ok(shape, FALSE), GenericParams)
               ELSE FNO2D(m, Ok(shape, FALSE), GenericParams)
    IN FNORun(m.cls, res, shape[1], Last(shape), m.n_steps, m.d_vars)

DetailFNO1DConfigs ==
    [cls : {"FNO1D"}, hidden_channels : {1}, n_modes : 1..(MaxW + 1),
     d_vars : 1..MaxChannels, n_layers : {1}, n_steps : 1..MaxSteps,
     linear_conv : BOOLEAN, norm : {"layer"}]

DetailFNO2DConfigs ==
    [cls : {"FNO2D"}, hidden_channels : {1}, n_modes : 1..MaxW,
     d_vars : 1..MaxChannels, n_layers : {1}, n_steps : 1..MaxSteps,
     linear_conv : {TRUE}, d_model : Pairs(MaxChannels),
     use_positions : BOOLEAN, norm : {"layer"}]

DetailConv1dConfigs ==
    [cls : {"SpectralConv1d"}, in_channels : 1..MaxChannels,
     d_vars : 1..MaxChannels, n_modes : 1..(MaxW + 1), linear_conv : BOOLEAN]

DetailConfigs ==
    DetailConv1dConfigs \cup Conv2dConfigs \cup DetailFNO1DConfigs
        \cup DetailFNO2DConfigs

(* x of the detailed runs: a shape, and whether the field is spatially     *)
(* constant                                                                *)
Field(shape, constant) == [shape |-> shape, constant |-> constant]

(* params of the detailed runs: dc_identity is TRUE when the spectral      *)
(* weights are the identity at the zero frequency and zero elsewhere       *)
LayerParams == [dc_identity : BOOLEAN]

InitLayer ==
    /\ pc = "args"
    /\ model \in DetailConfigs
    /\ params \in LayerParams
    /\ lib \in [irfft_zero_raises : BOOLEAN]
    /\ x = NoTensor
    /\ y = NoTensor
    /\ ts = NoState
    /\ call = NoCall
    /\ prev = NoCall
    /\ batch = NoBatch

RunConv1d ==
    /\ pc = "built"
    /\ model.cls = "SpectralConv1d"
    /\ \E W \in 1..MaxW, constant \in BOOLEAN :
          /\ x' = Field(<<W, model.in_channels>>, constant)
          /\ call' = Conv1dDetail(model, W, model.in_channels,
                                  constant /\ params.dc_identity
                                      /\ model.in_channels = model.d_vars)
    /\ pc' = "called"
    /\ UNCHANGED <<model, params, lib, y, ts, prev, batch>>

RunConv2d ==
    /\ pc = "built"
    /\ model.cls = "SpectralConv2d"
    /\ \E H \in 1..MaxW, W \in 1..MaxW :
          /\ x' = Field(<<H, W, model.in_channels>>, FALSE)
          /\ call' = Conv2dDetail(model, H, W, model.in_channels)
    /\ pc' = "called"
    /\ UNCHANGED <<model, params, lib, y, ts, prev, batch>>

RunFNO ==
    /\ pc = "built"
    /\ model.cls \in {"FNO1D", "FNO2D"}
    /\ \E T \in 1..MaxSteps, W \in 1..MaxW, C \in 1..MaxChannels :
          LET shape == IF model.cls = "FNO1D" THEN <<T, W, C>>
                       ELSE <<T, model.d_model[1], model.d_model[2], C>>
          IN /\ model.cls = "FNO2D" => W = 1
             /\ x' = Field(shape, FALSE)
             /\ call' = FNODetail(model, shape)
    /\ pc' = "called"
    /\ UNCHANGED <<model, params, lib, y, ts, prev, batch>>

(* the entry points among encode, advance, decode and __call__ that a     *)
(* class defines                                                           *)
EntryPoints(cls) ==
    IF cls = "FNO1D" THEN {"__call__"}
    ELSE IF cls = "FNO2D" THEN {"__call__", "advance"}
    ELSE AutoencoderMethods

(* an entry point looked up on the Batched* wrapper of a class: mapped is  *)
(* TRUE when nn.vmap lifted it over the batch axis                         *)
WrapperEntry(cls, method) ==
    [method |-> method, cls |-> cls, mapped |-> method \in WrappedMethods(cls)]

UseBatchedEntry ==
    /\ pc = "built"
    /\ model.cls \in {"FNO1D", "FNO2D"}
    /\ \E method \in EntryPoints(model.cls) :
          batch' = WrapperEntry(model.cls, method)
    /\ pc' = "called"
    /\ UNCHANGED <<model, params, lib, x, y, ts, call, prev>>

NextLayer ==
    \/ Construct
    \/ RunConv1d
    \/ RunConv2d
    \/ RunFNO
    \/ UseBatchedEntry

SpecLayer == InitLayer /\ [][NextLayer]_vars

(* C15: DC-mode identity.  For every W >= 1 and every admissible n_modes a *)
(* spatially constant field passed through SpectralConv1d whose            *)
(* zero-frequency weight is the identity and whose other mode weights are  *)
(* zero comes back unchanged: W grid points, each scaled by exactly 1.     *)
C15_DCModeIdentity ==
    (pc = "called" /\ call.method = "SpectralConv1d"
        /\ x.constant /\ params.dc_identity
        /\ model.in_channels = model.d_vars
        /\ model.n_modes <= RfftBins(call.fwd_n))
      => /\ call.res.err = "none"
         /\ call.res.shape[1] = x.shape[1]
         /\ call.gain # <<>>
         /\ call.gain[1] = call.gain[2]

(* C16: SpectralConv2d on an input of height H takes exactly two blocks of *)
(* the padded spectrum of 2H-1 rows: rows 0..n_modes1-1 with weight block  *)
(* 1 and rows (2H-1-n_modes1)..(2H-2) with weight block 2, each restricted *)
(* to columns 0..n_modes2-1, and concatenates them, block 1 first, for     *)
(* every n_modes1, n_modes2 within the available bins.                     *)
C16_TwoBlocksOfThePaddedSpectrum ==
    (pc = "called" /\ call.method = "SpectralConv2d"
        /\ model.n_modes1 <= call.fwd_s[1]
        /\ model.n_modes2 <= RfftBins(call.fwd_s[2]))
      => LET n1 == model.n_modes1
             R  == 2 * x.shape[1] - 1
         IN /\ call.res.err = "none"
            /\ call.fwd_s[1] = R
            /\ call.rows =
                 [i \in 1..(2 * n1) |->
                    IF i <= n1 THEN [row |-> i - 1, weight |-> 1]
                    ELSE [row |-> R - n1 + (i - n1) - 1, weight |-> 2]]
            /\ call.cols = [j \in 1..model.n_modes2 |-> j - 1]

(* SpectralConv2d has run on a field of height 3 with two modes per block, *)
(* so that rows 0, 1 and rows 3, 4 of the 5 spectrum rows are taken        *)
C16_Witness ==
    /\ pc = "called"
    /\ call.method = "SpectralConv2d"
    /\ x.shape[1] = 3
    /\ model.n_modes1 = 2
    /\ model.n_modes2 = 2
    /\ x.shape[2] = 2
    /\ call.res.err = "none"

(* C19: in both spectral layers the inverse transform uses the normalised  *)
(* ("ortho") convention of the forward transform.                          *)
C19_InverseTransformIsOrtho ==
    (pc = "called" /\ call.method \in {"SpectralConv1d", "SpectralConv2d"})
      => /\ call.fwd_norm = "ortho"
         /\ call.inv_norm = "ortho"

(* C18: temporal bundling in FNO1D and FNO2D.  The input is flattened so   *)
(* that input[t, position, c] becomes channel t*C + c, the d_vars*n_steps  *)
(* output channels are reshaped so that output[t, position, c] is channel  *)
(* t*d_vars + c, and when T_in = n_steps and C = d_vars reshaping the      *)
(* flattened channels gives back every (t, c).                             *)
C18_TemporalBundling ==
    (pc = "called" /\ call.method \in {"FNO1D", "FNO2D"})
      => LET T == x.shape[1]
             C == Last(x.shape)
         IN /\ \A t \in 0..(T - 1), c \in 0..(C - 1) :
                  call.in_channel[<<t, c>>] = t * C + c
            /\ \A t \in 0..(model.n_steps - 1), c \in 0..(model.d_vars - 1) :
                  call.out_index[t * model.d_vars + c] = <<t, c>>
            /\ (T = model.n_steps /\ C = model.d_vars)
                  => \A t \in 0..(T - 1), c \in 0..(C - 1) :
                        call.out_index[call.in_channel[<<t, c>>]] = <<t, c>>

(* FNO2D has returned two steps of two variables for an input of two       *)
(* timesteps of two channels                                               *)
C18_Witness ==
    /\ pc = "called"
    /\ call.method = "FNO2D"
    /\ call.res.err = "none"
    /\ x.shape[1] = 2
    /\ Last(x.shape) = 2
    /\ model.n_steps = 2
    /\ model.d_vars = 2

(* C20: linear_conv selects the convolution.  SpectralConv1d transforms at *)
(* the padded length 2W-1 when linear_conv is True and at the unpadded     *)
(* length W when it is False, and FNO1D builds its spectral layers with    *)
(* its own linear_conv value.                                              *)
C20_LinearConvSelectsPadding ==
    /\ (pc = "called" /\ call.method = "SpectralConv1d")
          => call.fwd_n = (IF model.linear_conv THEN 2 * x.shape[1] - 1
                           ELSE x.shape[1])
    /\ (pc = "called" /\ call.method = "FNO1D")
          => call.layer_linear_conv = model.linear_conv

(* C17: every Batched* wrapper offers a batched version of every entry     *)
(* point its wrapped class defines among encode, advance, decode and the   *)
(* forward call; BatchedFNO2D offers a batched advance.                    *)
C17_WrapperMapsEveryEntryPoint ==
    batch.method # "none" => batch.mapped

(* C26: in SpectralConv2d every retained coefficient reaches the inverse   *)
(* transform at the row that stands for the signed wavenumber it was read  *)
(* from: row k of the positive block at +k, the j-th of the last n_modes1  *)
(* rows at -(n_modes1 - j), for every grid height H and every n_modes1.    *)
C26_RetainedRowsKeepTheirWavenumber ==
    (pc = "called" /\ call.method = "SpectralConv2d" /\ call.res.err = "none")
      => LET placed == IrfftRows(call.rows, call.inv_s[1])
         IN \A i \in 1..Len(call.rows) :
               /\ i <= Len(placed)
               /\ placed[i] = call.rows[i]
               /\ SignedWavenumber(call.rows[i].row, call.fwd_s[1])
                     = SignedWavenumber(i - 1, call.inv_s[1])

(***************************************************************************)
(* The scripts: train and its test_step (scripts/train_rnn.py),            *)
(* generate_dataset (scripts/dataset_generation.py) and                    *)
(* restore_experiment_state (utils/checkpoint.py).  model holds the        *)
(* script's name and its inputs, call what the script has done so far.     *)
(*                                                                         *)
(* test_step works on the time axis only.  A timestep is a record:         *)
(* [src |-> "x", t |-> i] is timestep i of the ground truth x, and         *)
(* [src |-> "pred", n |-> n, s |-> s] is timestep s of the prediction of   *)
(* scan iteration n (all from 0).                                          *)
(***************************************************************************)

(* length = ceil(x.shape[1] / datamodule.num_steps_target_train) + 1 *)
ScanLength(T, S) == (T + S - 1) \div S + 1

(* pred[:, -datamodule.num_steps_input_train :, ...], the carry that step  *)
(* returns                                                                 *)
StepCarry(pred, I) == SubSeq(pred, Len(pred) - Min(I, Len(pred)) + 1, Len(pred))

(* rearrange(preds, "n b s ... c -> b (n s) ... c") of the stacked         *)
(* predictions, each of S timesteps (the model is built with n_steps = S)  *)
RolloutPreds(length, S) ==
    [k \in 1..(length * S) |->
        [src |-> "pred", n |-> (k - 1) \div S, s |-> (k - 1) % S]]

(* test_step on a sequence x of T timesteps with num_steps_input_train = I *)
(* and num_steps_target_train = S.  jax.lax.scan raises a TypeError when   *)
(* the carry that step returns has not the shape of the carry it was       *)
(* given.  carries are the carries handed to the model, in order.          *)
TestStepResult(T, I, S) ==
    LET init_x == [i \in 1..Min(I, T) |-> [src |-> "x", t |-> i - 1]]
        length == ScanLength(T, S)
        preds  == RolloutPreds(length, S)
        pred(n) == SubSeq(preds, n * S + 1, (n + 1) * S)
        full   == init_x \o preds
    IN IF Len(StepCarry(pred(0), I)) # Len(init_x)
         THEN [method |-> "test_step", err |-> "TypeError",
               carries |-> <<init_x>>, full_preds |-> <<>>]
         ELSE [method |-> "test_step", err |-> "none",
               carries |-> [n \in 1..length |->
                              IF n = 1 THEN init_x
                              ELSE StepCarry(pred(n - 2), I)],
               full_preds |-> SubSeq(full, 1, Min(T, Len(full)))]

TestStep ==
    /\ pc = "test_step"
    /\ call' = TestStepResult(model.T, model.num_steps_input_train,
                              model.num_steps_target_train)
    /\ pc' = "done"
    /\ UNCHANGED <<model, params, lib, x, y, ts, prev, batch>>

(***************************************************************************)
(* train: one action per pass of the epoch loop.  state counts the epochs  *)
(* whose train steps have updated the train state; early_stop is flax's    *)
(* EarlyStopping(min_delta=1e-3, patience=10).                             *)
(***************************************************************************)

(* validation at every epoch that is a multiple of epochs_val *)
ShouldValidateOnMultiples(epoch, epochs_val, epochs) ==
    (epoch % epochs_val = 0) \/ (epoch = epochs)

(* if ((epoch - 1) % epochs_val == 0) or (epoch == cfg.epochs) *)
ShouldValidate(epoch, epochs_val, epochs) ==
    ((epoch - 1) % epochs_val = 0) \/ (epoch = epochs)

(* early_stop.update(metric): improved is TRUE when no metric was seen yet *)
(* or the metric is more than min_delta below the best one                 *)
EarlyStopUpdate(es, improved) ==
    IF es.first \/ improved
      THEN [first |-> FALSE, patience_count |-> 0, should_stop |-> es.should_stop]
      ELSE [first |-> FALSE, patience_count |-> es.patience_count + 1,
            should_stop |-> es.patience_count >= Patience \/ es.should_stop]

(* train up to the epoch loop: the state made by create_train_state, the   *)
(* fresh EarlyStopping, nothing logged or saved                            *)
TrainStart ==
    [method |-> "train", epoch |-> 0, state |-> 0,
     early_stop |-> [first |-> TRUE, patience_count |-> 0, should_stop |-> FALSE],
     evaluated |-> {}, stopped_at |-> 0, logged |-> <<>>, saved |-> <<>>,
     returned |-> -1]

(* one pass of "for epoch in progress_bar", and the return that follows    *)
(* the last pass or the break                                              *)
TrainEpoch ==
    /\ pc = "train"
    /\ \E improved \in BOOLEAN :
          LET epoch    == call.epoch + 1
              state    == call.state + 1
              validate == ShouldValidate(epoch, model.epochs_val, model.epochs)
              es       == IF validate THEN EarlyStopUpdate(call.early_stop, improved)
                          ELSE call.early_stop
              stop     == validate /\ es.should_stop
              last     == stop \/ epoch = model.epochs
          IN /\ call' =
                  [call EXCEPT
                     !.epoch = epoch,
                     !.state = state,
                     !.early_stop = es,
                     !.evaluated = IF validate THEN @ \cup {epoch} ELSE @,
                     !.stopped_at = IF stop THEN epoch ELSE @,
                     !.logged = IF stop THEN @
                                ELSE Append(@, [step |-> epoch,
                                                keys |-> IF validate
                                                           THEN {"train", "val", "test"}
                                                           ELSE {"train"}]),
                     !.saved = IF validate /\ ~stop
                                 THEN Append(@, [step |-> epoch, state |-> state])
                                 ELSE @,
                     !.returned = IF last THEN state ELSE @]
             /\ pc' = IF last THEN "done" ELSE "train"
    /\ UNCHANGED <<model, params, lib, x, y, ts, prev, batch>>

(***************************************************************************)
(* create_train_state: the labels of the parameters.  A parameter is its   *)
(* path in the params tree, a tuple of names; "part in path" is true when  *)
(* one of the names of the path equals part.                               *)
(***************************************************************************)

(* a second pass that leaves the "ssm" label alone *)
FreezeLabelKeepsSsm(path, label, components_to_freeze) ==
    IF label = "ssm" THEN label
    ELSE IF \E i \in 1..Len(path) : path[i] \in components_to_freeze
      THEN "frozen" ELSE label

(* "ssm" if any(part in path for part in ssm_params) else "regular" *)
SsmLabel(path) ==
    IF \E i \in 1..Len(path) :
         path[i] \in {"nu_log", "theta_log", "gamma_log", "B_re", "B_im",
                      "C_re", "C_im"}
      THEN "ssm" ELSE "regular"

(* "frozen" if any(part in path for part in components_to_freeze) else     *)
(* label                                                                   *)
FreezeLabel(path, label, components_to_freeze) ==
    IF \E i \in 1..Len(path) : path[i] \in components_to_freeze
      THEN "frozen" ELSE label

(* optax.multi_transform: the update a label selects *)
GradientTransform(label) ==
    IF label = "ssm" THEN "adam"
    ELSE IF label = "regular" THEN "clip+adamw"
    ELSE IF label = "frozen" THEN "set_to_zero"
    ELSE "KeyError"

(* create_train_state from the two path_aware_map passes to                *)
(* gradient_transform, for the params tree model.init returned             *)
LabelParams ==
    /\ pc = "create_train_state"
    /\ call' =
         LET param_labels ==
               [path \in model.tree |->
                  FreezeLabel(path, SsmLabel(path), model.components_to_freeze)]
         IN [method |-> "create_train_state", param_labels |-> param_labels,
             tx |-> [path \in model.tree |-> GradientTransform(param_labels[path])]]
    /\ pc' = "done"
    /\ UNCHANGED <<model, params, lib, x, y, ts, prev, batch>>

(***************************************************************************)
(* generate_dataset: one action per pass of the loop over the initial      *)
(* conditions.  cfg.ic_params is a DictConfig when the configuration       *)
(* defines it and the plain dict {} of the getattr default when it does    *)
(* not; omegaconf's open_dict reads the flags of a config node, which a    *)
(* plain dict has not, and raises an AttributeError for it.                *)
(***************************************************************************)

(* number_ics after the SineMode limit *)
NumberIcs(generator, number_ics, n_max_modes) ==
    IF generator = "SineMode" THEN Min(number_ics, n_max_modes) ELSE number_ics

(* f"ic_{i:05d}.npy" for 0 <= i < 100000: the five digits of i *)
FileName(i) ==
    [prefix |-> "ic_", digits |-> [j \in 1..5 |-> (i \div (10 ^ (5 - j))) % 10],
     suffix |-> ".npy"]

(* one pass of "for i in progress_bar", or the end of a loop with nothing  *)
(* left to do                                                              *)
GenerateRun ==
    /\ pc = "generate_dataset"
    /\ LET n == NumberIcs(model.generator, model.number_ics, model.n_max_modes)
           i == Len(call.runs) + 1
       IN IF i > n
            THEN /\ pc' = "done"
                 /\ call' = call
          ELSE IF model.generator = "SineMode" /\ ~model.has_ic_params
            THEN /\ pc' = "done"
                 /\ call' = [call EXCEPT !.err = "AttributeError"]
          ELSE /\ pc' = IF i = n THEN "done" ELSE "generate_dataset"
               /\ call' = [call EXCEPT !.runs =
                             Append(@, [ic_sine_k |-> IF model.generator = "SineMode"
                                                       THEN i ELSE 1,
                                        file_name |-> FileName(i)])]
    /\ UNCHANGED <<model, params, lib, x, y, ts, prev, batch>>

(***************************************************************************)
(* restore_experiment_state on the directory of a run that train has       *)
(* written.  Steps are non-negative; -1 stands for step_to_restore = None. *)
(***************************************************************************)

(* step_to_restore if step_to_restore else step: step 0 counts as not      *)
(* given                                                                   *)
StepToRestoreIfTruthy(best, step_to_restore, latest_step, best_step) ==
    IF step_to_restore > 0 THEN step_to_restore
    ELSE IF ~best THEN latest_step ELSE best_step

(* step = latest_step() if not best else best_step();                      *)
(* step = step_to_restore if step_to_restore is not None else step         *)
StepToRestore(best, step_to_restore, latest_step, best_step) ==
    LET step == IF ~best THEN latest_step ELSE best_step
    IN IF step_to_restore # -1 THEN step_to_restore ELSE step

(* restore_experiment_state: the step handed to checkpoint_manager.restore *)
RestoreExperimentState ==
    /\ pc = "restore_experiment_state"
    /\ call' = [method |-> "restore_experiment_state",
                restored |-> StepToRestore(model.best, model.step_to_restore,
                                           model.latest_step, model.best_step)]
    /\ pc' = "done"
    /\ UNCHANGED <<model, params, lib, x, y, ts, prev, batch>>

(* the inputs of the scripts.  A test sequence has at least the timesteps  *)
(* the model takes as input; cfg.epochs and epochs_val are positive.       *)
ScriptInputs ==
    { m \in [script : {"test_step"}, T : 1..(2 * MaxSteps + 1),
             num_steps_input_train : 1..(MaxSteps + 1),
             num_steps_target_train : 1..(MaxSteps + 1)] :
        m.T >= m.num_steps_input_train }
    \cup [script : {"train"}, epochs : 1..MaxEpochs, epochs_val : 1..MaxEpochsVal]
    \cup [script : {"create_train_state"},
          tree : (SUBSET {<<"encoder", "kernel">>, <<"encoder", "bias">>,
                          <<"dynamics", "nu_log">>, <<"dynamics", "B_re">>,
                          <<"weight_real">>}) \ {{}},
          components_to_freeze : SUBSET {"encoder", "dynamics", "nu_log", "kernel"}]
    \cup [script : {"generate_dataset"}, generator : {"SineMode", "Gaussian"},
          number_ics : 0..MaxIcs, n_max_modes : 1..MaxIcs,
          has_ic_params : BOOLEAN]
    \cup [script : {"restore_experiment_state"}, best : BOOLEAN,
          step_to_restore : -1..MaxEpochsVal, latest_step : 0..MaxEpochsVal,
          best_step : 0..MaxEpochsVal]

InitScripts ==
    /\ model \in ScriptInputs
    /\ pc = model.script
    /\ params = GenericParams
    /\ lib = [irfft_zero_raises |-> FALSE]
    /\ x = NoTensor
    /\ y = NoTensor
    /\ ts = NoState
    /\ call = (IF model.script = "train" THEN TrainStart
               ELSE IF model.script = "generate_dataset"
                 THEN [method |-> "generate_dataset", err |-> "none", runs |-> <<>>]
               ELSE NoCall)
    /\ prev = NoCall
    /\ batch = NoBatch

NextScripts ==
    \/ TestStep
    \/ TrainEpoch
    \/ LabelParams
    \/ GenerateRun
    \/ RestoreExperimentState

SpecScripts == InitScripts /\ [][NextScripts]_vars

(* C27: in test_step's rollout the carry handed to the model at every      *)
(* iteration has exactly num_steps_input_train timesteps, the shape of the *)
(* initial input, for every num_steps_input_train >= 1 and                 *)
(* num_steps_target_train >= 1.                                            *)
C27_CarryKeepsInputLength ==
    (pc = "done" /\ model.script = "test_step")
      => /\ call.err = "none"
         /\ Len(call.carries) = ScanLength(model.T, model.num_steps_target_train)
         /\ \A n \in 1..Len(call.carries) :
               Len(call.carries[n]) = model.num_steps_input_train

(* C21: test_step returns full_preds with as many timesteps as x, for      *)
(* every T >= 1 and every num_steps_input_train, num_steps_target_train    *)
(* >= 1: the first num_steps_input_train timesteps are the ground-truth    *)
(* input steps and the predictions follow in rollout order, none           *)
(* duplicated or skipped.                                                  *)
C21_RolloutCoversTheSequence ==
    (pc = "done" /\ model.script = "test_step")
      => LET I == model.num_steps_input_train
             S == model.num_steps_target_train
         IN /\ call.err = "none"
            /\ Len(call.full_preds) = model.T
            /\ \A k \in 1..model.T :
                  call.full_preds[k] =
                    IF k <= I THEN [src |-> "x", t |-> k - 1]
                    ELSE [src |-> "pred", n |-> (k - I - 1) \div S,
                          s |-> (k - I - 1) % S]

C28_ReturnedStateIsSaved ==
    (pc = "done" /\ model.script = "train")
      => /\ call.saved # <<>>
         /\ call.saved[Len(call.saved)] =
               [step |-> call.epoch, state |-> call.returned]

(* C23: in create_train_state every parameter whose path contains a name   *)
(* of components_to_freeze is labelled "frozen" and gets the set-to-zero   *)
(* update, also when it would be "ssm"; every other parameter whose path   *)
(* contains an ssm parameter name is labelled "ssm", all others            *)
(* "regular"; each parameter has exactly one of the three labels.          *)
C23_FrozenBeforeSsmBeforeRegular ==
    (pc = "done" /\ model.script = "create_train_state")
      => /\ DOMAIN call.param_labels = model.tree
         /\ \A path \in model.tree :
               LET names  == { path[i] : i \in 1..Len(path) }
                   frozen == names \cap model.components_to_freeze # {}
                   ssm    == names \cap {"nu_log", "theta_log", "gamma_log",
                                         "B_re", "B_im", "C_re", "C_im"} # {}
               IN /\ call.param_labels[path] =
                       (IF frozen THEN "frozen"
                        ELSE IF ssm THEN "ssm" ELSE "regular")
                  /\ frozen => call.tx[path] = "set_to_zero"
                  /\ ~frozen => call.tx[path] # "set_to_zero"

(* with components_to_freeze = ["dynamics"] the ssm parameter              *)
(* dynamics/nu_log is frozen while encoder/kernel stays regular            *)
C23_Witness ==
    /\ pc = "done"
    /\ model.script = "create_train_state"
    /\ model.components_to_freeze = {"dynamics"}
    /\ <<"dynamics", "nu_log">> \in model.tree
    /\ <<"encoder", "kernel">> \in model.tree
    /\ call.param_labels[<<"dynamics", "nu_log">>] = "frozen"
    /\ call.tx[<<"dynamics", "nu_log">>] = "set_to_zero"
    /\ call.param_labels[<<"encoder", "kernel">>] = "regular"

(* C24: with the SineMode generator generate_dataset produces exactly      *)
(* min(cfg.number_ics, solver.n_max_modes) runs, the i-th with sine        *)
(* wavenumber k = i and saved as ic_<i in five digits>.npy, so no run has  *)
(* a wavenumber above solver.n_max_modes; with any other generator it      *)
(* produces exactly cfg.number_ics runs.                                   *)
C24_SineModeRunsAreLimited ==
    (pc = "done" /\ model.script = "generate_dataset")
      => /\ Len(call.runs) =
               (IF model.generator = "SineMode"
                  THEN Min(model.number_ics, model.n_max_modes)
                  ELSE model.number_ics)
         /\ \A i \in 1..Len(call.runs) :
               /\ call.runs[i].file_name =
                     [prefix |-> "ic_", digits |-> <<0, 0, 0, 0, i>>,
                      suffix |-> ".npy"]
               /\ model.generator = "SineMode"
                     => /\ call.runs[i].ic_sine_k = i
                        /\ call.runs[i].ic_sine_k <= model.n_max_modes

(* C25: restore_experiment_state restores the checkpoint at                *)
(* step_to_restore whenever step_to_restore is given (not None, step 0     *)
(* included); otherwise the manager's best step when best is True and its  *)
(* latest step when best is False.                                         *)
C25_RestoredStep ==
    (pc = "done" /\ model.script = "restore_experiment_state")
      => /\ model.step_to_restore >= 0
               => call.restored = model.step_to_restore
         /\ (model.step_to_restore = -1 /\ model.best)
               => call.restored = model.best_step
         /\ (model.step_to_restore = -1 /\ ~model.best)
               => call.restored = model.latest_step

(* step_to_restore = 0 was given while the best step is 2 and the latest   *)
(* step is 3: step 0 is restored                                           *)
C25_Witness ==
    /\ pc = "done"
    /\ model.script = "restore_experiment_state"
    /\ model.step_to_restore = 0
    /\ model.best
    /\ model.best_step = 2
    /\ model.latest_step = 3
    /\ call.restored = 0

====
